---------------------------- MODULE Spec2Model ----------------------------
(***************************************************************************)
(* ES 5-year data analysis: the daily OHLCV pipeline as it is written in   *)
(* the notebook (ES_analysis_notebook_final.ipynb), the R script           *)
(* (unnamed/part_001) and the SQL script (unnamed/part_000).               *)
(*                                                                         *)
(* Numbers.  Prices and volumes are integers.  A quotient (a daily return, *)
(* a moving average) is the pair <<numerator, denominator>> of the exact   *)
(* rational; the pair NaN == <<0, 0>> is the missing value (pandas NaN,    *)
(* R NA, SQL NULL).  Binary floating point rounding is not modelled.       *)
(* A timestamp is a number of minutes, day * MinutesPerDay + minute; it is *)
(* naive (no time zone), and day numbers count calendar days.              *)
(***************************************************************************)
EXTENDS Integers, Sequences, FiniteSets

VARIABLES
    impl,            \* which of the three programs this run executes
    pc,              \* the statement the program is about to execute
    csv,             \* the source rows, in the order they appear in the source
    es_data,         \* the loaded raw rows (Time parsed)
    es_daily,        \* the daily frame: index entry + Open High Low Close Volume
    daily_return,    \* notebook column 'Daily Return'
    fill_method,     \* pct_change's fill_method default of the installed pandas
    ma20,            \* column '20_Day_MA'
    ma50,            \* column '50_Day_MA'
    hist_input,      \* the values handed to histplot
    correlation_matrix,
    significant_changes,
    es_close,        \* the series handed to ARIMA
    arima,           \* what became of the ARIMA construction and fit
    predict_request, \* the positions asked of arima_result.predict
    forecast_col,    \* column 'Forecast'
    q_daily,         \* result set of the SQL daily aggregation
    q_returns,       \* result set of the SQL daily-returns query
    q_significant    \* result set of the SQL significant-changes query

vars == <<impl, pc, csv, es_data, es_daily, daily_return, fill_method, ma20, ma50,
          hist_input, correlation_matrix, significant_changes, es_close, arima,
          predict_request, forecast_col, q_daily, q_returns, q_significant>>

--------------------------------------------------------------------------
(* Bounds of the explored inputs *)

MaxRows == 3          \* free-form sources have at most this many rows
MaxLongDays == 22     \* one-row-per-day sources span at most this many days

Days == 1..2          \* calendar days of the free-form sources
LateDay == {4}        \* a later day a free-form source may also have a bar on
Minutes == {570, 600} \* 09:30 and 10:00
Seeds == {1, 2}

BarShapes ==
    { [Open |-> 52, High |-> 52, Low |-> 50, Close |-> 50, Volume |-> 1],
      [Open |-> 50, High |-> 51, Low |-> 50, Close |-> 51, Volume |-> 2] }

--------------------------------------------------------------------------
(* Values *)

MinutesPerDay == 1440
NaN == <<0, 0>>

IsNaN(x) == x = NaN

\* price p as a value of a float column
Val(p) == <<p, 1>>

Abs(n) == IF n < 0 THEN 0 - n ELSE n

\* a / b of two column values, NaN when either is missing
Div(a, b) == IF IsNaN(a) \/ IsNaN(b) THEN NaN ELSE <<a[1] * b[2], a[2] * b[1]>>

\* a - b of two column values
Minus(a, b) == IF IsNaN(a) \/ IsNaN(b) THEN NaN
               ELSE <<a[1] * b[2] - b[1] * a[2], a[2] * b[2]>>

\* equality of two defined values as rationals
RatEq(a, b) == a[1] * b[2] = b[1] * a[2]

\* calendar date of a timestamp
DateOf(t) == t \div MinutesPerDay

\* the Time text 'MM/DD/YYYY HH:MM', held as <<day, minute of day>>, parsed
ParseTime(s) == s[1] * MinutesPerDay + s[2]

ParseRow(r) == [Time |-> ParseTime(r.Time), Open |-> r.Open, High |-> r.High,
                Low |-> r.Low, Close |-> r.Close, Volume |-> r.Volume]

RECURSIVE SeqSum(_)
SeqSum(s) == IF s = <<>> THEN 0 ELSE s[1] + SeqSum(Tail(s))

SetMax(S) == CHOOSE x \in S : \A y \in S : y <= x
SetMin(S) == CHOOSE x \in S : \A y \in S : x <= y

Range(s) == { s[i] : i \in 1..Len(s) }

Column(rows, f) == [i \in 1..Len(rows) |-> rows[i][f]]

\* the members of a set of integers, ascending
RECURSIVE Ascending(_)
Ascending(S) == IF S = {} THEN <<>>
                ELSE <<SetMin(S)>> \o Ascending(S \ {SetMin(S)})

--------------------------------------------------------------------------
(* The sources *)

CsvRow(day, minute, shape) ==
    [Time |-> <<day, minute>>, Open |-> shape.Open, High |-> shape.High,
     Low |-> shape.Low, Close |-> shape.Close, Volume |-> shape.Volume]

RowOptions ==
    { CsvRow(d, m, b) : d \in Days, m \in Minutes, b \in BarShapes }
    \cup { CsvRow(d, 570, [Open |-> 50, High |-> 51, Low |-> 50, Close |-> 51,
                           Volume |-> 2]) : d \in LateDay }

FreeSources == UNION { [1..n -> RowOptions] : n \in 0..MaxRows }

\* close of the one bar of day d in a one-row-per-day source
LongClose(d, seed) == 50 + ((d * seed) % 3)

LongRow(d, seed) ==
    [Time |-> <<d, 600>>, Open |-> LongClose(d + 1, seed),
     High |-> LongClose(d, seed) + 2, Low |-> 49,
     Close |-> LongClose(d, seed), Volume |-> 1 + (d % 2)]

\* days 1..n, one bar each, day `gap` (if in 1..n) absent
LongSource(n, gap, seed) ==
    LET days == Ascending((1..n) \ {gap})
    IN  [i \in 1..Len(days) |-> LongRow(days[i], seed)]

LongSources ==
    { LongSource(n, gap, seed) :
        n \in (MaxLongDays - 3)..MaxLongDays, gap \in 0..MaxLongDays, seed \in Seeds }

Sources == FreeSources \cup LongSources

--------------------------------------------------------------------------
(* More arithmetic on column values *)

Plus(a, b) == IF IsNaN(a) \/ IsNaN(b) THEN NaN
              ELSE <<a[1] * b[2] + b[1] * a[2], a[2] * b[2]>>

RECURSIVE ValSum(_)
ValSum(s) == IF s = <<>> THEN Val(0) ELSE Plus(s[1], ValSum(Tail(s)))

\* arithmetic mean of a non-empty sequence of defined values
Mean(s) == LET t == ValSum(s) IN <<t[1], t[2] * Len(s)>>

AbsVal(a) == IF IsNaN(a) THEN NaN ELSE <<Abs(a[1]), a[2]>>

\* a > b; a comparison with a missing value is false (denominators are positive)
Gt(a, b) == ~IsNaN(a) /\ ~IsNaN(b) /\ a[1] * b[2] > b[1] * a[2]

NotNaN(x) == ~IsNaN(x)

Dropna(s) == SelectSeq(s, NotNaN)

--------------------------------------------------------------------------
(* Notebook, cell 5c20435d: load, daily aggregation, daily returns *)

\* the stable sort by index that resample applies before binning
RECURSIVE InsertByTime(_, _)
InsertByTime(r, s) ==
    IF s = <<>> THEN <<r>>
    ELSE IF s[Len(s)].Time <= r.Time THEN Append(s, r)
    ELSE Append(InsertByTime(r, SubSeq(s, 1, Len(s) - 1)), s[Len(s)])

RECURSIVE SortByTime(_)
SortByTime(rows) ==
    IF rows = <<>> THEN <<>>
    ELSE InsertByTime(rows[Len(rows)], SortByTime(SubSeq(rows, 1, Len(rows) - 1)))

\* a loader that sorts what it read by Time
ReadCsv_sorted(rows) == SortByTime([i \in 1..Len(rows) |-> ParseRow(rows[i])])

\* pd.read_csv, pd.to_datetime, set_index('Time'): row order is the source's
ReadCsv(rows) == [i \in 1..Len(rows) |-> ParseRow(rows[i])]

\* the rows of calendar day d, in the order they have in rows
RowsOfDay(rows, d) == SelectSeq(rows, LAMBDA r : DateOf(r.Time) = d)

AggFirst(col) == IF col = <<>> THEN NaN ELSE Val(col[1])
AggLast(col)  == IF col = <<>> THEN NaN ELSE Val(col[Len(col)])
AggMax(col)   == IF col = <<>> THEN NaN ELSE Val(SetMax(Range(col)))
AggMin(col)   == IF col = <<>> THEN NaN ELSE Val(SetMin(Range(col)))
\* a Volume aggregate that keeps the day's last volume
AggSum_last(col) == IF col = <<>> THEN 0 ELSE col[Len(col)]
AggSum(col)   == SeqSum(col)

\* the days resample('D') makes a bin for: every day from the first to the last
ResampleBins(rows) ==
    IF rows = <<>> THEN <<>>
    ELSE LET ds == { DateOf(rows[i].Time) : i \in 1..Len(rows) }
         IN  [k \in 1..(SetMax(ds) - SetMin(ds) + 1) |-> SetMin(ds) + k - 1]

\* es_data.resample('D').agg({...})
Resample(rows) ==
    LET sorted == SortByTime(rows)
        bins   == ResampleBins(sorted)
    IN  [k \in 1..Len(bins) |->
            LET grp == RowsOfDay(sorted, bins[k])
            IN  [idx    |-> [kind |-> "timestamp", v |-> bins[k] * MinutesPerDay],
                 Open   |-> AggFirst(Column(grp, "Open")),
                 High   |-> AggMax(Column(grp, "High")),
                 Low    |-> AggMin(Column(grp, "Low")),
                 Close  |-> AggLast(Column(grp, "Close")),
                 Volume |-> AggSum(Column(grp, "Volume"))]]

\* DatetimeIndex.to_period('D') and PeriodIndex.to_timestamp() on one entry
ToPeriod(ix) == [kind |-> "period", v |-> ix.v \div MinutesPerDay]
\* a period start computed one day late
ToTimestamp_next(ix) == [kind |-> "timestamp", v |-> (ix.v + 1) * MinutesPerDay]
ToTimestamp(ix) == [kind |-> "timestamp", v |-> ix.v * MinutesPerDay]

\* es_daily.index = es_daily.index.to_period('D')
IndexToPeriod(frame) ==
    [i \in 1..Len(frame) |-> [frame[i] EXCEPT !.idx = ToPeriod(frame[i].idx)]]

\* es_daily.index = es_daily.index.to_timestamp()
IndexToTimestamp(frame) ==
    [i \in 1..Len(frame) |-> [frame[i] EXCEPT !.idx = ToTimestamp(frame[i].idx)]]

\* calendar date of an index entry
IndexDate(ix) == IF ix.kind = "timestamp" THEN DateOf(ix.v) ELSE ix.v

\* forward fill
RECURSIVE Ffill(_)
Ffill(s) ==
    IF Len(s) <= 1 THEN s
    ELSE LET head == Ffill(SubSeq(s, 1, Len(s) - 1))
         IN  Append(head, IF IsNaN(s[Len(s)]) THEN head[Len(head)] ELSE s[Len(s)])

\* Series.pct_change(): filled / filled.shift(1) - 1
PctChange(close, fill) ==
    LET filled == IF fill = "pad" THEN Ffill(close) ELSE close
    IN  [i \in 1..Len(close) |->
            IF i = 1 THEN NaN ELSE Minus(Div(filled[i], filled[i - 1]), Val(1))]

FillMethods == {"pad", "none"}

--------------------------------------------------------------------------
(* Notebook, cell 45beee33: moving averages, return histogram *)

\* Series.rolling(window).mean(); min_periods defaults to the window
Rolling(close, window) ==
    [i \in 1..Len(close) |->
        LET lo  == IF i > window THEN i - window + 1 ELSE 1
            obs == Dropna(SubSeq(close, lo, i))
        IN  IF Len(obs) >= window THEN Mean(obs) ELSE NaN]

ShortWindow == 20
LongWindow == 50
HistBins == 50

--------------------------------------------------------------------------
(* Notebook, cell 71781c4a: correlation, significant moves *)

CorrColumns == <<"Open", "High", "Low", "Close", "Volume">>

Cell(row, f) == IF f = "Volume" THEN Val(row.Volume) ELSE row[f]

\* Pearson correlation of columns f and g over the rows where both are defined,
\* as <<n*Sxy - Sx*Sy, (n*Sxx - Sx^2) * (n*Syy - Sy^2)>>: the value is the first
\* over the square root of the second; NaN when the second is zero.
\* (Every cell of the frame is an integer, so its numerator is its value.)
Pearson(frame, f, g) ==
    LET rows == SelectSeq(frame, LAMBDA r : NotNaN(Cell(r, f)) /\ NotNaN(Cell(r, g)))
        n    == Len(rows)
        x    == [i \in 1..n |-> Cell(rows[i], f)[1]]
        y    == [i \in 1..n |-> Cell(rows[i], g)[1]]
        Sx   == SeqSum(x)
        Sy   == SeqSum(y)
        Sxy  == SeqSum([i \in 1..n |-> x[i] * y[i]])
        Sxx  == SeqSum([i \in 1..n |-> x[i] * x[i]])
        Syy  == SeqSum([i \in 1..n |-> y[i] * y[i]])
        d    == (n * Sxx - Sx * Sx) * (n * Syy - Sy * Sy)
    IN  IF d = 0 THEN NaN ELSE <<n * Sxy - Sx * Sy, d>>

Corr(frame) ==
    [a \in 1..Len(CorrColumns) |->
        [b \in 1..Len(CorrColumns) |-> Pearson(frame, CorrColumns[a], CorrColumns[b])]]

SignificantThreshold == <<2, 100>>

\* a filter that also keeps a return of exactly the threshold
IsSignificant_ge(ret) == ~Gt(SignificantThreshold, AbsVal(ret)) /\ NotNaN(ret)
IsSignificant(ret) == Gt(AbsVal(ret), SignificantThreshold)

\* es_daily[es_daily['Daily Return'].abs() > 0.02]
SignificantRows(frame, ret) ==
    LET n    == Len(frame)
        keep == { i \in 1..n : IsSignificant(ret[i]) }
        pos  == Ascending(keep)
    IN  [k \in 1..Len(pos) |->
            [idx |-> frame[pos[k]].idx, Close |-> frame[pos[k]].Close,
             Daily_Return |-> ret[pos[k]]]]

--------------------------------------------------------------------------
(* Notebook, cell 81bc521a: ARIMA fit and forecast *)

\* es_daily['Close'].dropna()
CloseSeries(frame) ==
    LET keep == Ascending({ i \in 1..Len(frame) : NotNaN(frame[i].Close) })
    IN  [k \in 1..Len(keep) |-> [idx |-> frame[keep[k]].idx, Close |-> frame[keep[k]].Close]]

\* a fit guarded by a length check
FitOutcomes_guarded(series) ==
    IF Len(series) < 6 THEN {"InsufficientHistory"} ELSE {"fitted", "raised"}

\* ARIMA(es_close, order=(5, 1, 0)).fit(): the estimation is the statistics
\* library's; it either returns a result or raises, for a series of any length
FitOutcomes(series) == {"fitted", "raised"}

ArOrder == 5
DiffOrder == 1
MaOrder == 0
ForecastSpan == 30

\* predict(start=len(es_close), end=len(es_close) + 30): zero-based positions,
\* both ends included
PredictPositions(series) == Len(series)..(Len(series) + ForecastSpan)

\* a daily index with no day missing keeps its frequency
HasFreq(series) ==
    \A i \in 2..Len(series) : IndexDate(series[i].idx) = IndexDate(series[i - 1].idx) + 1

\* label of forecast position k: a date when the series has a frequency,
\* the bare position otherwise
ForecastLabel(series, k) ==
    IF series # <<>> /\ HasFreq(series)
    THEN [kind |-> "timestamp",
          v |-> (IndexDate(series[1].idx) + k) * MinutesPerDay]
    ELSE [kind |-> "position", v |-> k]

\* es_daily['Forecast'] = ...: aligned on the index labels; a row whose label
\* no forecast carries gets NaN.  A filled cell holds the forecast's position.
AlignForecast(frame, series) ==
    [i \in 1..Len(frame) |->
        LET hit == { k \in PredictPositions(series) :
                        ForecastLabel(series, k) = frame[i].idx }
        IN  IF hit = {} THEN NaN ELSE Val(SetMin(hit))]

--------------------------------------------------------------------------
(* R script *)

\* read.csv, as.POSIXct: row order is the source's
ReadCsvR(rows) == [i \in 1..Len(rows) |-> ParseRow(rows[i])]

\* mutate(Date = as.Date(Time)) %>% group_by(Date) %>% summarise(...):
\* one row per Date present, ascending; first and last are by row position
Summarise(rows) ==
    LET dates == Ascending({ DateOf(rows[i].Time) : i \in 1..Len(rows) })
    IN  [k \in 1..Len(dates) |->
            LET grp == RowsOfDay(rows, dates[k])
            IN  [idx    |-> [kind |-> "date", v |-> dates[k]],
                 Open   |-> Val(Column(grp, "Open")[1]),
                 High   |-> Val(SetMax(Range(Column(grp, "High")))),
                 Low    |-> Val(SetMin(Range(Column(grp, "Low")))),
                 Close  |-> Val(Column(grp, "Close")[Len(grp)]),
                 Volume |-> SeqSum(Column(grp, "Volume"))]]

\* zoo::rollapply(Close, width, mean, fill = NA, align = 'right')
RollApply(close, width) ==
    [i \in 1..Len(close) |->
        IF i < width THEN NaN
        ELSE LET w == SubSeq(close, i - width + 1, i)
             IN  IF \E j \in 1..Len(w) : IsNaN(w[j]) THEN NaN ELSE Mean(w)]

--------------------------------------------------------------------------
(* SQL script.  A result set has no order: it is a set of rows.  NULL is NaN. *)

\* the ETL load into es_data(Time DATETIME, ...)
InsertRows(rows) == [i \in 1..Len(rows) |-> ParseRow(rows[i])]

TableDates(table) == { DateOf(table[i].Time) : i \in 1..Len(table) }

\* SELECT DATE(Time), MIN(Open), MAX(High), MIN(Low), MAX(Close), SUM(Volume)
\* FROM es_data GROUP BY DATE(Time)
SqlDaily(table) ==
    { LET grp == RowsOfDay(table, d)
      IN  [Date   |-> d,
           Open   |-> Val(SetMin(Range(Column(grp, "Open")))),
           High   |-> Val(SetMax(Range(Column(grp, "High")))),
           Low    |-> Val(SetMin(Range(Column(grp, "Low")))),
           Close  |-> Val(SetMax(Range(Column(grp, "Close")))),
           Volume |-> SeqSum(Column(grp, "Volume"))] : d \in TableDates(table) }

\* the subquery daily_close: SELECT DATE(Time), MAX(Close) ... GROUP BY DATE(Time)
SqlDailyClose(table) ==
    { [Date |-> d, Close |-> Val(SetMax(Range(Column(RowsOfDay(table, d), "Close"))))] :
        d \in TableDates(table) }

\* LAG(Close, 1) OVER (ORDER BY Date) at the row of date d
Lag(rel, d) ==
    LET before == { r \in rel : r.Date < d }
    IN  IF before = {} THEN NaN
        ELSE (CHOOSE r \in before : \A q \in before : q.Date <= r.Date).Close

\* the daily-returns query
SqlReturns(table) ==
    LET rel == SqlDailyClose(table)
    IN  { [Date |-> r.Date, Close |-> r.Close, Prev_Close |-> Lag(rel, r.Date),
           Daily_Return |-> Div(Minus(r.Close, Lag(rel, r.Date)), Lag(rel, r.Date))] :
            r \in rel }

SqlThreshold == <<2, 100>>

\* WHERE ABS(Daily_Return) > 0.02: a NULL comparison rejects the row
SqlWhere(ret) == Gt(AbsVal(ret), SqlThreshold)

\* the significant-changes query
SqlSignificant(table) ==
    { [Date |-> r.Date, Close |-> r.Close, Daily_Return |-> r.Daily_Return] :
        r \in { q \in SqlReturns(table) : SqlWhere(q.Daily_Return) } }

--------------------------------------------------------------------------
(* The programs *)

Impls == {"notebook", "r", "sql"}

NoArima == [status |-> "none", order |-> <<ArOrder, DiffOrder, MaOrder>>, nobs |-> 0]
NoRequest == [asked |-> FALSE, start |-> 0, end |-> 0]

Init ==
    /\ impl \in Impls
    /\ pc = "load"
    /\ csv \in Sources
    /\ es_data = <<>>
    /\ es_daily = <<>>
    /\ daily_return = <<>>
    /\ fill_method = "unset"
    /\ ma20 = <<>>
    /\ ma50 = <<>>
    /\ hist_input = [bins |-> HistBins, data |-> <<>>]
    /\ correlation_matrix = <<>>
    /\ significant_changes = <<>>
    /\ es_close = <<>>
    /\ arima = NoArima
    /\ predict_request = NoRequest
    /\ forecast_col = <<>>
    /\ q_daily = {}
    /\ q_returns = {}
    /\ q_significant = {}

At(prog, step) == impl = prog /\ pc = step

\* pd.read_csv, pd.to_datetime, set_index
NbLoad ==
    /\ At("notebook", "load")
    /\ es_data' = ReadCsv(csv)
    /\ pc' = "resample"
    /\ UNCHANGED <<impl, csv, es_daily, daily_return, fill_method, ma20, ma50,
                   hist_input, correlation_matrix, significant_changes, es_close,
                   arima, predict_request, forecast_col, q_daily, q_returns,
                   q_significant>>

\* es_daily = es_data.resample('D').agg({...})
NbResample ==
    /\ At("notebook", "resample")
    /\ es_daily' = Resample(es_data)
    /\ pc' = "to_period"
    /\ UNCHANGED <<impl, csv, es_data, daily_return, fill_method, ma20, ma50,
                   hist_input, correlation_matrix, significant_changes, es_close,
                   arima, predict_request, forecast_col, q_daily, q_returns,
                   q_significant>>

\* es_daily.index = es_daily.index.to_period('D')
NbToPeriod ==
    /\ At("notebook", "to_period")
    /\ es_daily' = IndexToPeriod(es_daily)
    /\ pc' = "pct_change"
    /\ UNCHANGED <<impl, csv, es_data, daily_return, fill_method, ma20, ma50,
                   hist_input, correlation_matrix, significant_changes, es_close,
                   arima, predict_request, forecast_col, q_daily, q_returns,
                   q_significant>>

\* es_daily['Daily Return'] = es_daily['Close'].pct_change()
NbPctChange ==
    /\ At("notebook", "pct_change")
    /\ \E fill \in FillMethods :
          /\ fill_method' = fill
          /\ daily_return' = PctChange(Column(es_daily, "Close"), fill)
    /\ pc' = "to_timestamp"
    /\ UNCHANGED <<impl, csv, es_data, es_daily, ma20, ma50,
                   hist_input, correlation_matrix, significant_changes, es_close,
                   arima, predict_request, forecast_col, q_daily, q_returns,
                   q_significant>>

\* es_daily.index = es_daily.index.to_timestamp()
NbToTimestamp ==
    /\ At("notebook", "to_timestamp")
    /\ es_daily' = IndexToTimestamp(es_daily)
    /\ pc' = "rolling"
    /\ UNCHANGED <<impl, csv, es_data, daily_return, fill_method, ma20, ma50,
                   hist_input, correlation_matrix, significant_changes, es_close,
                   arima, predict_request, forecast_col, q_daily, q_returns,
                   q_significant>>

\* es_daily['20_Day_MA'], es_daily['50_Day_MA']
NbRolling ==
    /\ At("notebook", "rolling")
    /\ ma20' = Rolling(Column(es_daily, "Close"), ShortWindow)
    /\ ma50' = Rolling(Column(es_daily, "Close"), LongWindow)
    /\ pc' = "histplot"
    /\ UNCHANGED <<impl, csv, es_data, es_daily, daily_return, fill_method,
                   hist_input, correlation_matrix, significant_changes, es_close,
                   arima, predict_request, forecast_col, q_daily, q_returns,
                   q_significant>>

\* sns.histplot(es_daily['Daily Return'].dropna(), bins=50, kde=True)
NbHistplot ==
    /\ At("notebook", "histplot")
    /\ hist_input' = [bins |-> HistBins, data |-> Dropna(daily_return)]
    /\ pc' = "corr"
    /\ UNCHANGED <<impl, csv, es_data, es_daily, daily_return, fill_method, ma20, ma50,
                   correlation_matrix, significant_changes, es_close,
                   arima, predict_request, forecast_col, q_daily, q_returns,
                   q_significant>>

\* correlation_matrix = es_daily[[...]].corr()
NbCorr ==
    /\ At("notebook", "corr")
    /\ correlation_matrix' = Corr(es_daily)
    /\ pc' = "significant"
    /\ UNCHANGED <<impl, csv, es_data, es_daily, daily_return, fill_method, ma20, ma50,
                   hist_input, significant_changes, es_close,
                   arima, predict_request, forecast_col, q_daily, q_returns,
                   q_significant>>

\* significant_changes = es_daily[es_daily['Daily Return'].abs() > 0.02]
NbSignificant ==
    /\ At("notebook", "significant")
    /\ significant_changes' = SignificantRows(es_daily, daily_return)
    /\ pc' = "dropna"
    /\ UNCHANGED <<impl, csv, es_data, es_daily, daily_return, fill_method, ma20, ma50,
                   hist_input, correlation_matrix, es_close,
                   arima, predict_request, forecast_col, q_daily, q_returns,
                   q_significant>>

\* es_close = es_daily['Close'].dropna()
NbDropna ==
    /\ At("notebook", "dropna")
    /\ es_close' = CloseSeries(es_daily)
    /\ pc' = "fit"
    /\ UNCHANGED <<impl, csv, es_data, es_daily, daily_return, fill_method, ma20, ma50,
                   hist_input, correlation_matrix, significant_changes,
                   arima, predict_request, forecast_col, q_daily, q_returns,
                   q_significant>>

\* model = ARIMA(es_close, order=(5, 1, 0)); arima_result = model.fit()
NbFit ==
    /\ At("notebook", "fit")
    /\ \E outcome \in FitOutcomes(es_close) :
          /\ arima' = [status |-> outcome, order |-> <<ArOrder, DiffOrder, MaOrder>>,
                       nobs |-> Len(es_close)]
          /\ pc' = IF outcome = "fitted" THEN "predict" ELSE "error"
    /\ UNCHANGED <<impl, csv, es_data, es_daily, daily_return, fill_method, ma20, ma50,
                   hist_input, correlation_matrix, significant_changes, es_close,
                   predict_request, forecast_col, q_daily, q_returns,
                   q_significant>>

\* es_daily['Forecast'] = arima_result.predict(start=..., end=..., dynamic=True)
NbPredict ==
    /\ At("notebook", "predict")
    /\ predict_request' = [asked |-> TRUE, start |-> SetMin(PredictPositions(es_close)),
                           end |-> SetMax(PredictPositions(es_close))]
    /\ forecast_col' = AlignForecast(es_daily, es_close)
    /\ pc' = "done"
    /\ UNCHANGED <<impl, csv, es_data, es_daily, daily_return, fill_method, ma20, ma50,
                   hist_input, correlation_matrix, significant_changes, es_close,
                   arima, q_daily, q_returns, q_significant>>

\* es_data <- read.csv(...); es_data$Time <- as.POSIXct(...)
RLoad ==
    /\ At("r", "load")
    /\ es_data' = ReadCsvR(csv)
    /\ pc' = "summarise"
    /\ UNCHANGED <<impl, csv, es_daily, daily_return, fill_method, ma20, ma50,
                   hist_input, correlation_matrix, significant_changes, es_close,
                   arima, predict_request, forecast_col, q_daily, q_returns,
                   q_significant>>

\* es_daily <- es_data %>% ... summarise(...)
RSummarise ==
    /\ At("r", "summarise")
    /\ es_daily' = Summarise(es_data)
    /\ pc' = "rollapply"
    /\ UNCHANGED <<impl, csv, es_data, daily_return, fill_method, ma20, ma50,
                   hist_input, correlation_matrix, significant_changes, es_close,
                   arima, predict_request, forecast_col, q_daily, q_returns,
                   q_significant>>

\* es_daily <- es_daily %>% mutate(`20_Day_MA` = ..., `50_Day_MA` = ...)
RRollApply ==
    /\ At("r", "rollapply")
    /\ ma20' = RollApply(Column(es_daily, "Close"), ShortWindow)
    /\ ma50' = RollApply(Column(es_daily, "Close"), LongWindow)
    /\ pc' = "done"
    /\ UNCHANGED <<impl, csv, es_data, es_daily, daily_return, fill_method,
                   hist_input, correlation_matrix, significant_changes, es_close,
                   arima, predict_request, forecast_col, q_daily, q_returns,
                   q_significant>>

\* the ETL load of es_data
SqlLoad ==
    /\ At("sql", "load")
    /\ es_data' = InsertRows(csv)
    /\ pc' = "daily"
    /\ UNCHANGED <<impl, csv, es_daily, daily_return, fill_method, ma20, ma50,
                   hist_input, correlation_matrix, significant_changes, es_close,
                   arima, predict_request, forecast_col, q_daily, q_returns,
                   q_significant>>

SqlDailyQuery ==
    /\ At("sql", "daily")
    /\ q_daily' = SqlDaily(es_data)
    /\ pc' = "returns"
    /\ UNCHANGED <<impl, csv, es_data, es_daily, daily_return, fill_method, ma20, ma50,
                   hist_input, correlation_matrix, significant_changes, es_close,
                   arima, predict_request, forecast_col, q_returns, q_significant>>

SqlReturnsQuery ==
    /\ At("sql", "returns")
    /\ q_returns' = SqlReturns(es_data)
    /\ pc' = "significant"
    /\ UNCHANGED <<impl, csv, es_data, es_daily, daily_return, fill_method, ma20, ma50,
                   hist_input, correlation_matrix, significant_changes, es_close,
                   arima, predict_request, forecast_col, q_daily, q_significant>>

SqlSignificantQuery ==
    /\ At("sql", "significant")
    /\ q_significant' = SqlSignificant(es_data)
    /\ pc' = "done"
    /\ UNCHANGED <<impl, csv, es_data, es_daily, daily_return, fill_method, ma20, ma50,
                   hist_input, correlation_matrix, significant_changes, es_close,
                   arima, predict_request, forecast_col, q_daily, q_returns>>

Next ==
    \/ NbLoad \/ NbResample \/ NbToPeriod \/ NbPctChange \/ NbToTimestamp
    \/ NbRolling \/ NbHistplot \/ NbCorr \/ NbSignificant \/ NbDropna
    \/ NbFit \/ NbPredict
    \/ RLoad \/ RSummarise \/ RRollApply
    \/ SqlLoad \/ SqlDailyQuery \/ SqlReturnsQuery \/ SqlSignificantQuery

Spec == Init /\ [][Next]_vars

--------------------------------------------------------------------------
(* What the properties speak of *)

\* the calendar dates written in the source
SourceDates == { csv[i].Time[1] : i \in 1..Len(csv) }

\* the source rows of date d, in source order
SourceRows(d) == SelectSeq(csv, LAMBDA r : r.Time[1] = d)

TimeLeq(a, b) == a[1] < b[1] \/ (a[1] = b[1] /\ a[2] <= b[2])

SourceSorted == \A i \in 2..Len(csv) : TimeLeq(csv[i - 1].Time, csv[i].Time)

TotalSourceVolume == SeqSum([i \in 1..Len(csv) |-> csv[i].Volume])

RECURSIVE SetSum(_, _)
SetSum(S, f) ==
    IF S = {} THEN 0
    ELSE LET x == CHOOSE y \in S : TRUE IN x[f] + SetSum(S \ {x}, f)

Loaded == impl \in {"notebook", "r"} /\ pc # "load"

\* the notebook or the R script holds its daily frame
FrameAggregated ==
    \/ impl = "notebook" /\ pc \notin {"load", "resample"}
    \/ impl = "r" /\ pc \notin {"load", "summarise"}

SqlAggregated == impl = "sql" /\ pc \notin {"load", "daily"}

FrameDates == { IndexDate(es_daily[i].idx) : i \in 1..Len(es_daily) }

\* date and OHLCV of every daily bar, in frame order
Core(frame) ==
    [i \in 1..Len(frame) |->
        [Date |-> IndexDate(frame[i].idx), Open |-> frame[i].Open,
         High |-> frame[i].High, Low |-> frame[i].Low, Close |-> frame[i].Close,
         Volume |-> frame[i].Volume]]

\* the DailyBar of date d as the data model defines it
DailyBarOf(d) ==
    LET rows == SourceRows(d)
    IN  [Date   |-> d,
         Open   |-> <<rows[1].Open, 1>>,
         High   |-> <<SetMax({ rows[i].High : i \in 1..Len(rows) }), 1>>,
         Low    |-> <<SetMin({ rows[i].Low : i \in 1..Len(rows) }), 1>>,
         Close  |-> <<rows[Len(rows)].Close, 1>>,
         Volume |-> SeqSum([i \in 1..Len(rows) |-> rows[i].Volume])]

--------------------------------------------------------------------------
(* C1 *)

\* C1: the aggregator's output has exactly one DailyBar per calendar date of
\* the input, none for a date absent from the input, in strictly ascending
\* date order.
C1_OneBarPerInputDate ==
    /\ FrameAggregated =>
          /\ FrameDates = SourceDates
          /\ \A i \in 2..Len(es_daily) :
                IndexDate(es_daily[i - 1].idx) < IndexDate(es_daily[i].idx)
    /\ SqlAggregated =>
          /\ { r.Date : r \in q_daily } = SourceDates
          /\ Cardinality(q_daily) = Cardinality(SourceDates)

--------------------------------------------------------------------------
(* C2 *)

\* C2: for a timestamp-sorted source and every date in it, the notebook, the
\* R script and the SQL query all produce the DailyBar of the data model:
\* first open, maximum high, minimum low, last close, summed volume.
C2_SameDailyBarEverywhere ==
    SourceSorted =>
        \A d \in SourceDates :
            /\ FrameAggregated => \E i \in 1..Len(es_daily) : Core(es_daily)[i] = DailyBarOf(d)
            /\ SqlAggregated => DailyBarOf(d) \in q_daily

--------------------------------------------------------------------------
(* C3 *)

\* C3: the volumes of the DailyBars add up to the volumes of the input
\* RawBars, for every input, the empty one included.
C3_VolumeConserved ==
    /\ FrameAggregated => SeqSum(Column(es_daily, "Volume")) = TotalSourceVolume
    /\ SqlAggregated => SetSum(q_daily, "Volume") = TotalSourceVolume

\* the notebook has aggregated a source with a two-bar day and an absent day
C3_Witness ==
    /\ impl = "notebook" /\ pc = "to_period"
    /\ Len(csv) = 3 /\ Len(es_daily) = 4
    /\ es_daily[1].Volume = 3 /\ es_daily[2].Volume = 0 /\ es_daily[4].Volume = 2

--------------------------------------------------------------------------
(* C4 *)

\* (close[i] - close[i-1]) / close[i-1] of the frame's own consecutive rows
ReturnOfRows(close, i) == Div(Minus(close[i], close[i - 1]), close[i - 1])

SameValue(a, b) == IF IsNaN(a) \/ IsNaN(b) THEN a = b ELSE RatEq(a, b)

\* C4: the first record's daily_return is missing, and every later one is
\* (close[i] - close[i-1]) / close[i-1] with close[i-1] the close of the
\* immediately preceding DailyBar, never a carried-forward close.
C4_ReturnFromPrecedingBar ==
    /\ (impl = "notebook" /\ pc \notin {"load", "resample", "to_period", "pct_change"}) =>
          /\ Len(daily_return) = Len(es_daily)
          /\ \A i \in 1..Len(es_daily) :
                IF i = 1 THEN IsNaN(daily_return[i])
                ELSE SameValue(daily_return[i], ReturnOfRows(Column(es_daily, "Close"), i))
    /\ (impl = "sql" /\ pc \notin {"load", "daily", "returns"}) =>
          \A r \in q_returns :
             LET before == { q \in q_returns : q.Date < r.Date }
             IN  IF before = {} THEN IsNaN(r.Daily_Return)
                 ELSE LET p == CHOOSE q \in before : \A o \in before : o.Date <= q.Date
                      IN  SameValue(r.Daily_Return,
                                    <<r.Close[1] - p.Close[1], p.Close[1]>>)

--------------------------------------------------------------------------
(* C5 *)

Rolled == (impl = "notebook" /\ pc \notin {"load", "resample", "to_period",
                                            "pct_change", "to_timestamp", "rolling"})
          \/ (impl = "r" /\ pc = "done")

\* C5: MovingAverage(20) is missing on each of the first 19 records and, from
\* the 20th on, defined and equal to the mean of that record's close and the
\* 19 closes before it.
C5_MovingAverage20 ==
    Rolled =>
        /\ Len(ma20) = Len(es_daily)
        /\ \A i \in 1..Len(es_daily) :
              IF i < 20 THEN IsNaN(ma20[i])
              ELSE /\ NotNaN(ma20[i])
                   /\ RatEq(ma20[i],
                            <<SeqSum([j \in 1..20 |-> es_daily[i - 20 + j].Close[1]]), 20>>)

--------------------------------------------------------------------------
(* C6 *)

\* the return is defined and strictly more than 2 percent in size
Over2Percent(ret) == ret # <<0, 0>> /\ 100 * Abs(ret[1]) > 2 * Abs(ret[2])

\* C6: the significant-move filter returns exactly the records whose
\* daily_return is defined and has |daily_return| > 0.02, strictly.
C6_SignificantExactly ==
    /\ (impl = "notebook" /\ pc \in {"dropna", "fit", "predict", "done", "error"}) =>
          /\ \A i \in 1..Len(es_daily) :
                (\E k \in 1..Len(significant_changes) :
                      /\ significant_changes[k].idx = es_daily[i].idx
                      /\ significant_changes[k].Close = es_daily[i].Close
                      /\ significant_changes[k].Daily_Return = daily_return[i])
                <=> Over2Percent(daily_return[i])
          /\ \A k \in 1..Len(significant_changes) :
                \E i \in 1..Len(es_daily) : significant_changes[k].idx = es_daily[i].idx
    /\ (impl = "sql" /\ pc = "done") =>
          /\ \A r \in q_returns :
                (\E q \in q_significant : q.Date = r.Date /\ q.Daily_Return = r.Daily_Return)
                <=> Over2Percent(r.Daily_Return)
          /\ \A q \in q_significant : \E r \in q_returns : r.Date = q.Date

\* the notebook's filter has met a missing return, a return of exactly 2 percent
\* and a larger one
C6_Witness ==
    /\ impl = "notebook" /\ pc = "dropna"
    /\ significant_changes # <<>>
    /\ \E i \in 1..Len(daily_return) : daily_return[i] = <<0, 0>>
    /\ \E i \in 1..Len(daily_return) :
          daily_return[i] # <<0, 0>> /\ 100 * daily_return[i][1] = 2 * daily_return[i][2]

--------------------------------------------------------------------------
(* C7 *)

\* C7: the forecaster asks for exactly 30 periods, positions n .. n+29 of a
\* series of n observations.
C7_ThirtyPeriods ==
    predict_request.asked =>
        /\ predict_request.start = Len(es_close)
        /\ predict_request.end = Len(es_close) + 29

--------------------------------------------------------------------------
(* C8 *)

FitStageOver == impl = "notebook" /\ pc \in {"predict", "done", "error"}

--------------------------------------------------------------------------
(* C9 *)

EarliestOf(d) == { r \in Range(SourceRows(d)) :
                      \A q \in Range(SourceRows(d)) : TimeLeq(r.Time, q.Time) }
LatestOf(d)   == { r \in Range(SourceRows(d)) :
                      \A q \in Range(SourceRows(d)) : TimeLeq(q.Time, r.Time) }

BarOfDate(d) == CHOOSE b \in Range(Core(es_daily)) : b.Date = d

--------------------------------------------------------------------------
(* C10 *)

\* C10: once the daily frame exists, no later step changes the date, open,
\* high, low, close or volume of a DailyBar, nor adds or removes one.
C10_DailyBarsImmutable ==
    [][FrameAggregated => Core(es_daily)' = Core(es_daily)]_vars

\* the notebook has run to its end over a frame with an absent day
C10_Witness ==
    /\ impl = "notebook" /\ pc = "done"
    /\ Len(es_daily) >= 3 /\ Len(forecast_col) = Len(es_daily)
    /\ \E i \in 1..Len(es_daily) : es_daily[i].Close = <<0, 0>>

==========================================================================
